---- MODULE Spec2Model ----
(***************************************************************************)
(* Model of src/retailco.py: the Airflow DAG 'enterprise_data_pipeline'.   *)
(*                                                                         *)
(* The DAG is a linear chain of four tasks                                 *)
(*   extract_task >> transform_task >> create_tables >> load_to_snowflake  *)
(* (Extract, Transform, ProvisionSchema, Load in the words of spec.md).    *)
(* Every task inherits default_args: retries = 3, retry_delay = 5 minutes. *)
(* No task sets a trigger rule, so each runs under Airflow's default       *)
(* 'all_success'.  No stage body classifies its failures: the callables    *)
(* re-raise whatever they catch, and the operators raise on any error, so  *)
(* the scheduler treats every failed attempt alike.                        *)
(*                                                                         *)
(* Specifications:                                                         *)
(*   Spec      one DAG run driven by the scheduler;                        *)
(*   SpecLive  Spec with a scheduler that keeps working;                   *)
(*   SpecIdem  the four stage bodies invoked directly, in any order and    *)
(*             any number of times, against the external systems;          *)
(*   SpecRuns  the DAG run next to another run of the same DAG;            *)
(*   SpecBody  extract_from_source and transform_with_spark executed       *)
(*             statement by statement.                                     *)
(***************************************************************************)
EXTENDS Integers, Sequences, FiniteSets, TLC

(***************************************************************************)
(* Program constants                                                       *)
(***************************************************************************)
retries == 3
retry_delay == 5
SecPerMin == 60
SecPerDay == 86400

(***************************************************************************)
(* Bounds of the model                                                     *)
(***************************************************************************)
\* clock ticks per second: datetime.now() is finer than the '%S' of strftime
TicksPerSec == 2
\* direct invocations of stage bodies in SpecIdem
MaxCalls == 3
\* single clock ticks taken between direct invocations in SpecIdem
MaxTicks == 3
\* versions of the content of source_system.csv
MaxSource == 1

(***************************************************************************)
(* The chain of tasks                                                      *)
(***************************************************************************)
extract_task == 1
transform_task == 2
create_tables == 3
load_to_snowflake == 4

Chain == <<"extract_from_source", "transform_with_spark",
           "create_snowflake_tables", "load_to_snowflake">>

Stages == 1..Len(Chain)

\* extract_task >> transform_task >> create_tables >> load_to_snowflake:
\* the direct upstream tasks of s
Upstream_noDeps(s) == {}
Upstream(s) == IF s = extract_task THEN {} ELSE {s - 1}

\* every task after s in the chain
Downstream(s) == {d \in Stages : d > s}

\* the DAG run succeeds when its leaf task has succeeded
IsLeaf_early(s) == s >= create_tables
IsLeaf(s) == s = load_to_snowflake

Outcomes == {"Success", "RetryableFailure", "FatalFailure"}
Failures_anyOutcome == Outcomes
Failures == {"RetryableFailure", "FatalFailure"}

\* default_args: a failed try is retried while its try number is <= retries
CanRetry_offByOne(n) == n <= retries + 1
CanRetry_tooFew(n) == n < retries
CanRetry(n) == n <= retries

\* the try number of the attempt that starts after n attempts
NextTry_notCounted(n) == IF n = 0 THEN 1 ELSE n
NextTry(n) == n + 1

\* ticks of the clock in retry_delay = timedelta(minutes=5)
RetryDelayTicks_seconds == retry_delay * TicksPerSec
RetryDelayTicks == retry_delay * SecPerMin * TicksPerSec

(***************************************************************************)
(* The external systems, as the stage bodies use them                      *)
(***************************************************************************)
\* strftime('%Y%m%d_%H%M%S'): the clock reading truncated to whole seconds
StrfTime(t) == t \div TicksPerSec

\* blob_name = f"raw_data_{...}.csv"
BlobName(t) == StrfTime(t)

\* container_client.upload_blob(name, data, overwrite=True)
upload_blob(container, name, data) ==
    [n \in (DOMAIN container) \cup {name} |->
        IF n = name THEN data ELSE container[n]]

\* spark.functions.current_date()
current_date(t) == t \div (SecPerDay * TicksPerSec)

\* spark.read.format("csv").load(".../*.csv"): the rows of every blob of the
\* container, as a bag (content |-> number of blobs holding it)
ReadCsv(container) ==
    LET vals == {container[n] : n \in DOMAIN container}
    IN  [v \in vals |-> Cardinality({n \in DOMAIN container : container[n] = v})]

\* the transformed data frame: the rows read, stamped with processed_date
Transformed(container, t) ==
    [rows |-> ReadCsv(container), processed_date |-> current_date(t)]

\* transformed_df.write.mode("overwrite").parquet(".../processed-data/")
WriteParquet_append(dir, df) == Append(dir, df)
WriteParquet(dir, df) == <<df>>

\* CREATE TABLE IF NOT EXISTS sales_fact ...; ... customer_dimension ...
CreateTables(wh) ==
    [t \in (DOMAIN wh) \cup {"sales_fact", "customer_dimension"} |->
        IF t \in DOMAIN wh THEN wh[t] ELSE <<>>]

\* COPY INTO sales_fact FROM @azure_stage/processed-data/: appends the batch
CopyInto(wh, dir) ==
    IF "sales_fact" \in DOMAIN wh
    THEN [wh EXCEPT !["sales_fact"] = @ \o dir]
    ELSE wh

NoArtifact == -1
EmptyFn == [n \in {} |-> 0]

(***************************************************************************)
(* State                                                                   *)
(***************************************************************************)
VARIABLES
    runState,    \* state of the DAG run: Pending, Running, Completed, Aborted
    taskState,   \* state of each task instance of the run
    tryNumber,   \* attempts of each task started so far
    retryAt,     \* earliest clock reading at which a task may be retried
    record,      \* outcome of every finished attempt, in order: <<stage, outcome>>
    xcom,        \* value returned by extract_from_source (the blob name)
    now,         \* the clock, in ticks
    source,      \* content (version) of source_system.csv
    blobs,       \* container 'raw-data': blob name |-> content
    processed,   \* container 'processed-data': the batches written
    warehouse,   \* Snowflake: table name |-> batches loaded
    calls,       \* SpecIdem: direct invocations made so far
    ticks,       \* SpecIdem: single clock ticks taken so far
    lastCall,    \* SpecIdem: the previous direct invocation
    otherRun,    \* SpecRuns: another run of the DAG: tasks done, attempt running
    body         \* SpecBody: the stage body being executed, statement by statement

runnerVars == <<runState, taskState, tryNumber, retryAt, record, xcom>>
extVars == <<blobs, processed, warehouse>>
idemVars == <<calls, ticks, lastCall>>
auxVars == <<otherRun, body>>
vars == <<runState, taskState, tryNumber, retryAt, record, xcom, now, source,
          blobs, processed, warehouse, calls, ticks, lastCall, otherRun, body>>

\* the external state a stage can change
Ext == <<blobs, processed, warehouse>>

NoCall == [stage |-> 0, input |-> <<>>, date |-> 0, name |-> NoArtifact,
           reps |-> 0]

\* no stage body is being executed
NoBody == [fn |-> "none", pc |-> "idle", spark |-> FALSE, error |-> FALSE,
           blob_name |-> NoArtifact, result |-> "none", ret |-> NoArtifact]

Init ==
    /\ runState = "Pending"
    /\ taskState = [s \in Stages |-> "none"]
    /\ tryNumber = [s \in Stages |-> 0]
    /\ retryAt = [s \in Stages |-> 0]
    /\ record = <<>>
    /\ xcom = NoArtifact
    /\ now = 0
    /\ source = 0
    /\ blobs = EmptyFn
    /\ processed = <<>>
    /\ warehouse = EmptyFn
    /\ calls = 0
    /\ ticks = 0
    /\ lastCall = NoCall
    /\ otherRun = [done |-> 0, running |-> FALSE]
    /\ body = NoBody

(***************************************************************************)
(* The stage bodies: their effect on the external systems                  *)
(***************************************************************************)
\* extract_from_source(): uploads the snapshot and returns blob_name
ExtractEffect ==
    /\ blobs' = upload_blob(blobs, BlobName(now), source)
    /\ UNCHANGED <<processed, warehouse>>

\* transform_with_spark(): reads *.csv, overwrites processed-data
TransformEffect ==
    /\ processed' = WriteParquet(processed, Transformed(blobs, now))
    /\ UNCHANGED <<blobs, warehouse>>

\* create_tables_sql
CreateTablesEffect ==
    /\ warehouse' = CreateTables(warehouse)
    /\ UNCHANGED <<blobs, processed>>

\* load_to_snowflake_sql
LoadEffect ==
    /\ warehouse' = CopyInto(warehouse, processed)
    /\ UNCHANGED <<blobs, processed>>

Effect(s) ==
    CASE s = extract_task      -> ExtractEffect
      [] s = transform_task    -> TransformEffect
      [] s = create_tables     -> CreateTablesEffect
      [] s = load_to_snowflake -> LoadEffect

(***************************************************************************)
(* Spec: the scheduler running one DAG run                                 *)
(***************************************************************************)
\* the schedule (or a manual trigger) creates the run and the scheduler
\* starts it
Trigger ==
    /\ runState = "Pending"
    /\ runState' = "Running"
    /\ UNCHANGED <<taskState, tryNumber, retryAt, record, xcom, now, source>>
    /\ UNCHANGED extVars
    /\ UNCHANGED idemVars
    /\ UNCHANGED auxVars

\* trigger rule all_success: every direct upstream task has succeeded
UpstreamOk(s) == \A p \in Upstream(s) : taskState[p] = "success"

StartAttempt_anyRunState(s) ==
    /\ \/ taskState[s] = "none"
       \/ taskState[s] = "up_for_retry" /\ now >= retryAt[s]
    /\ UpstreamOk(s)
    /\ taskState' = [taskState EXCEPT ![s] = "running"]
    /\ tryNumber' = [tryNumber EXCEPT ![s] = NextTry(@)]
    /\ UNCHANGED <<runState, retryAt, record, xcom, now, source>>
    /\ UNCHANGED extVars
    /\ UNCHANGED idemVars
    /\ UNCHANGED auxVars

\* the scheduler starts an attempt of task s
StartAttempt(s) ==
    /\ runState = "Running"
    /\ \/ taskState[s] = "none"
       \/ taskState[s] = "up_for_retry" /\ now >= retryAt[s]
    /\ UpstreamOk(s)
    /\ taskState' = [taskState EXCEPT ![s] = "running"]
    /\ tryNumber' = [tryNumber EXCEPT ![s] = NextTry(@)]
    /\ UNCHANGED <<runState, retryAt, record, xcom, now, source>>
    /\ UNCHANGED extVars
    /\ UNCHANGED idemVars
    /\ UNCHANGED auxVars

\* the attempt returns normally
Succeed(s) ==
    /\ taskState[s] = "running"
    /\ Effect(s)
    /\ taskState' = [taskState EXCEPT ![s] = "success"]
    /\ record' = Append(record, <<s, "Success">>)
    /\ xcom' = IF s = extract_task THEN BlobName(now) ELSE xcom
    /\ runState' = IF IsLeaf(s) THEN "Completed" ELSE runState
    /\ UNCHANGED <<tryNumber, retryAt, now, source>>
    /\ UNCHANGED idemVars
    /\ UNCHANGED auxVars

\* the attempt raises (cause of class c) and tries remain: up_for_retry.
\* The class of the cause is not read by anything: the stage bodies re-raise
\* unclassified.  An attempt that raises leaves the external systems as they
\* were: the upload, the parquet write and the SQL statements are the last
\* step of their stage body.
FailRetry(s, c) ==
    /\ taskState[s] = "running"
    /\ CanRetry(tryNumber[s])
    /\ taskState' = [taskState EXCEPT ![s] = "up_for_retry"]
    /\ retryAt' = [retryAt EXCEPT ![s] = now + RetryDelayTicks]
    /\ record' = Append(record, <<s, c>>)
    /\ UNCHANGED <<runState, tryNumber, xcom, now, source>>
    /\ UNCHANGED extVars
    /\ UNCHANGED idemVars
    /\ UNCHANGED auxVars

\* the attempt raises and no try remains: the task fails, every downstream
\* task becomes upstream_failed and the run fails
FailFinal(s, c) ==
    /\ taskState[s] = "running"
    /\ ~CanRetry(tryNumber[s])
    /\ taskState' = [t \in Stages |->
                        IF t = s THEN "failed"
                        ELSE IF t \in Downstream(s) THEN "upstream_failed"
                        ELSE taskState[t]]
    /\ record' = Append(record, <<s, c>>)
    /\ runState' = "Aborted"
    /\ UNCHANGED <<tryNumber, retryAt, xcom, now, source>>
    /\ UNCHANGED extVars
    /\ UNCHANGED idemVars
    /\ UNCHANGED auxVars

\* time passes until the next retry is due
Waiting == {s \in Stages : taskState[s] = "up_for_retry" /\ retryAt[s] > now}

Tick ==
    /\ Waiting # {}
    /\ now' = CHOOSE t \in {retryAt[s] : s \in Waiting} :
                  \A s \in Waiting : t <= retryAt[s]
    /\ UNCHANGED runnerVars
    /\ UNCHANGED source
    /\ UNCHANGED extVars
    /\ UNCHANGED idemVars
    /\ UNCHANGED auxVars

Next ==
    \/ Trigger
    \/ \E s \in Stages : StartAttempt(s)
    \/ \E s \in Stages : Succeed(s)
    \/ \E s \in Stages, c \in Failures : FailRetry(s, c)
    \/ \E s \in Stages, c \in Failures : FailFinal(s, c)
    \/ Tick

Spec == Init /\ [][Next]_vars

\* the scheduler keeps working and every attempt it starts returns: a step
\* of the run that stays possible is eventually taken
SpecLive == Init /\ [][Next]_vars /\ WF_vars(Next)

(***************************************************************************)
(* SpecIdem: the stage bodies invoked directly                             *)
(***************************************************************************)
\* what a stage body reads: source_system.csv, the raw-data container,
\* nothing, the processed-data container
Input(s) ==
    CASE s = extract_task      -> source
      [] s = transform_task    -> blobs
      [] s = create_tables     -> <<>>
      [] s = load_to_snowflake -> processed

\* one invocation of the body of stage s; reps counts the consecutive
\* invocations of the same stage with the same input
Call(s) ==
    /\ calls < MaxCalls
    /\ Effect(s)
    /\ calls' = calls + 1
    /\ lastCall' = [stage |-> s, input |-> Input(s),
                    date |-> current_date(now), name |-> BlobName(now),
                    reps |-> IF lastCall.stage = s /\ lastCall.input = Input(s)
                             THEN lastCall.reps + 1 ELSE 1]
    /\ UNCHANGED runnerVars
    /\ UNCHANGED <<now, source, ticks>>
    /\ UNCHANGED auxVars

\* the clock advances by one tick, or by a day
ClockSteps == {1, SecPerDay * TicksPerSec}

IdemTick(d) ==
    /\ ticks < MaxTicks
    /\ ticks' = ticks + 1
    /\ now' = now + d
    /\ UNCHANGED runnerVars
    /\ UNCHANGED source
    /\ UNCHANGED extVars
    /\ UNCHANGED <<calls, lastCall>>
    /\ UNCHANGED auxVars

\* the operational system rewrites source_system.csv
SourceChange ==
    /\ source < MaxSource
    /\ source' = source + 1
    /\ UNCHANGED runnerVars
    /\ UNCHANGED now
    /\ UNCHANGED extVars
    /\ UNCHANGED idemVars
    /\ UNCHANGED auxVars

NextIdem ==
    \/ \E s \in Stages : Call(s)
    \/ \E d \in ClockSteps : IdemTick(d)
    \/ SourceChange

SpecIdem == Init /\ [][NextIdem]_vars

(***************************************************************************)
(* SpecRuns: the run next to another run of the same DAG                   *)
(*                                                                         *)
(* The DAG is scheduled every 4 hours and can be triggered by hand; it     *)
(* sets no max_active_runs, no pool and no lock, so a second run proceeds  *)
(* whatever the state of the first.  The other run works on the same       *)
(* containers and the same warehouse.  Its failed attempts are left out    *)
(* (they change nothing outside that run), and since nothing reads the     *)
(* class of a failure, the failures of the run itself are drawn from one   *)
(* class here.                                                             *)
(***************************************************************************)
\* the scheduler starts the next task of the other run
OtherStart ==
    /\ ~otherRun.running
    /\ otherRun.done < Len(Chain)
    /\ otherRun' = [otherRun EXCEPT !.running = TRUE]
    /\ UNCHANGED runnerVars
    /\ UNCHANGED <<now, source, body>>
    /\ UNCHANGED extVars
    /\ UNCHANGED idemVars

\* the attempt of the other run returns normally
OtherFinish ==
    /\ otherRun.running
    /\ Effect(otherRun.done + 1)
    /\ otherRun' = [done |-> otherRun.done + 1, running |-> FALSE]
    /\ UNCHANGED runnerVars
    /\ UNCHANGED <<now, source, body>>
    /\ UNCHANGED idemVars

NextRuns ==
    \/ Trigger
    \/ \E s \in Stages : StartAttempt(s)
    \/ \E s \in Stages : Succeed(s)
    \/ \E s \in Stages : FailRetry(s, "RetryableFailure")
    \/ \E s \in Stages : FailFinal(s, "RetryableFailure")
    \/ Tick
    \/ OtherStart
    \/ OtherFinish

SpecRuns == Init /\ [][NextRuns]_vars

(***************************************************************************)
(* SpecBody: extract_from_source and transform_with_spark, statement by    *)
(* statement.  body.pc is the statement about to run, body.error tells     *)
(* whether a statement has raised, body.result how the call ended          *)
(* ("returned" or "raised") and body.ret what it returned.                 *)
(***************************************************************************)
BodyFns == {"extract_from_source", "transform_with_spark"}

\* the first statement of each function
FirstPc(fn) == IF fn = "extract_from_source" THEN "client" ELSE "session"

\* the statements inside the try block of each function
TryBlock(fn) ==
    IF fn = "extract_from_source"
    THEN {"client", "read_csv", "upload", "return"}
    ELSE {"read", "transform", "write"}

\* the statement after pc when pc completes
NextPc(fn, pc) ==
    CASE fn = "extract_from_source" /\ pc = "client"   -> "read_csv"
      [] fn = "extract_from_source" /\ pc = "read_csv" -> "upload"
      [] fn = "extract_from_source" /\ pc = "upload"   -> "return"
      [] fn = "transform_with_spark" /\ pc = "session"   -> "read"
      [] fn = "transform_with_spark" /\ pc = "read"      -> "transform"
      [] fn = "transform_with_spark" /\ pc = "transform" -> "write"
      [] fn = "transform_with_spark" /\ pc = "write"     -> "finally"

\* except Exception as e: logger.error(...); raise
ExceptHandler_swallow(b) ==
    IF b.fn = "transform_with_spark"
    THEN [b EXCEPT !.pc = "finally"]
    ELSE [b EXCEPT !.result = "returned", !.pc = "done"]
ExceptHandler(b) ==
    [b EXCEPT !.result = "raised",
              !.pc = IF b.fn = "transform_with_spark" THEN "finally" ELSE "done"]

\* finally: spark.stop(), then the call ends as it was ending
FinallyBlock(b) ==
    [b EXCEPT !.spark = FALSE, !.pc = "done",
              !.result = IF b.result = "none" THEN "returned" ELSE b.result]

\* a stage body is called
BodyEnter(fn) ==
    /\ body.pc \in {"idle", "done"}
    /\ calls < MaxCalls
    /\ calls' = calls + 1
    /\ body' = [NoBody EXCEPT !.fn = fn, !.pc = FirstPc(fn)]
    /\ UNCHANGED runnerVars
    /\ UNCHANGED <<now, source, ticks, lastCall, otherRun>>
    /\ UNCHANGED extVars

\* the statement at body.pc completes
BodyStep ==
    /\ body.pc \in TryBlock(body.fn) \cup {"session"}
    /\ CASE body.pc = "upload" ->
              /\ blobs' = upload_blob(blobs, BlobName(now), source)
              /\ body' = [body EXCEPT !.blob_name = BlobName(now),
                                      !.pc = "return"]
              /\ UNCHANGED <<processed, warehouse>>
         [] body.pc = "return" ->
              /\ body' = [body EXCEPT !.ret = body.blob_name,
                                      !.result = "returned", !.pc = "done"]
              /\ UNCHANGED extVars
         [] body.pc = "session" ->
              /\ body' = [body EXCEPT !.spark = TRUE, !.pc = "read"]
              /\ UNCHANGED extVars
         [] body.pc = "write" ->
              /\ processed' = WriteParquet(processed, Transformed(blobs, now))
              /\ body' = [body EXCEPT !.pc = "finally"]
              /\ UNCHANGED <<blobs, warehouse>>
         [] OTHER ->
              /\ body' = [body EXCEPT !.pc = NextPc(body.fn, body.pc)]
              /\ UNCHANGED extVars
    /\ UNCHANGED runnerVars
    /\ UNCHANGED <<now, source, otherRun>>
    /\ UNCHANGED idemVars

\* the statement at body.pc raises: inside the try block the except clause
\* takes over; SparkSession...getOrCreate() is outside it and the exception
\* leaves the function at once.  The return statement cannot raise.
BodyRaise ==
    /\ body.pc \in (TryBlock(body.fn) \cup {"session"}) \ {"return"}
    /\ body' = IF body.pc = "session"
               THEN [body EXCEPT !.error = TRUE, !.result = "raised",
                                 !.pc = "done"]
               ELSE [body EXCEPT !.error = TRUE, !.pc = "except"]
    /\ UNCHANGED runnerVars
    /\ UNCHANGED <<now, source, otherRun>>
    /\ UNCHANGED extVars
    /\ UNCHANGED idemVars

\* the except clause runs
BodyExcept ==
    /\ body.pc = "except"
    /\ body' = ExceptHandler(body)
    /\ UNCHANGED runnerVars
    /\ UNCHANGED <<now, source, otherRun>>
    /\ UNCHANGED extVars
    /\ UNCHANGED idemVars

\* the finally clause runs
BodyFinally ==
    /\ body.pc = "finally"
    /\ body' = FinallyBlock(body)
    /\ UNCHANGED runnerVars
    /\ UNCHANGED <<now, source, otherRun>>
    /\ UNCHANGED extVars
    /\ UNCHANGED idemVars

NextBody ==
    \/ \E fn \in BodyFns : BodyEnter(fn)
    \/ BodyStep
    \/ BodyRaise
    \/ BodyExcept
    \/ BodyFinally
    \/ \E d \in ClockSteps : IdemTick(d)
    \/ SourceChange

SpecBody == Init /\ [][NextBody]_vars

(***************************************************************************)
(* Properties                                                              *)
(***************************************************************************)
\* the entries of the record that belong to stage s
EntriesOf(s) == SelectSeq(record, LAMBDA e : e[1] = s)

HasOutcome(s, o) == \E i \in 1..Len(record) : record[i] = <<s, o>>

AllRetryable(s) ==
    \A i \in 1..Len(record) :
        record[i][1] = s => record[i][2] = "RetryableFailure"

\* C1 (as claimed): if stage k has yielded FatalFailure, no stage after k
\* is ever invoked in the run.
C1_AbortPropagation ==
    \A k \in Stages :
        HasOutcome(k, "FatalFailure") =>
            \A d \in Downstream(k) : tryNumber[d] = 0

\* C2 (as claimed): the Load stage is invoked at most once per run.
C2_LoadAtMostOnce == tryNumber[load_to_snowflake] <= 1

\* C3 (as claimed): no stage is attempted more than 3 times in a run.
C3_AtMostThreeAttempts == \A s \in Stages : tryNumber[s] <= 3

\* C3 (amended): no stage is attempted more than retries + 1 = 4 times in a
\* run, and the record never holds more than 4 outcomes of one stage.
C3_AtMostRetriesPlusOne ==
    \A s \in Stages :
        /\ tryNumber[s] <= retries + 1
        /\ Len(EntriesOf(s)) <= tryNumber[s]

C3_Witness ==
    \E s \in Stages : tryNumber[s] = retries + 1 /\ taskState[s] = "running"

\* C4: a stage has been attempted only if every stage before it in the chain
\* has succeeded (and its Success is recorded); at most one attempt is in
\* progress; Transform never starts without the artifact Extract returned.
C4_SequentialOnSuccess ==
    /\ \A s \in Stages :
          tryNumber[s] > 0 =>
              \A p \in Stages :
                  p < s => taskState[p] = "success" /\ HasOutcome(p, "Success")
    /\ Cardinality({s \in Stages : taskState[s] = "running"}) <= 1
    /\ tryNumber[transform_task] > 0 => xcom # NoArtifact

C4_Witness ==
    /\ taskState[load_to_snowflake] = "running"
    /\ tryNumber[load_to_snowflake] = 2
    /\ tryNumber[transform_task] = 3

\* C5 (as claimed): a stage that has yielded FatalFailure is never attempted
\* again: it is failed and the run is Aborted at once.
C5_FatalNeverRetried ==
    \A s \in Stages :
        HasOutcome(s, "FatalFailure") =>
            taskState[s] = "failed" /\ runState = "Aborted"

OverwriteSafe == {extract_task, transform_task, create_tables}

\* this step invokes stage s again, right after an invocation of s with the
\* same input
Repeats(s) ==
    /\ lastCall.stage = s
    /\ lastCall'.stage = s
    /\ lastCall'.reps = lastCall.reps + 1

\* C6 (as claimed): invoking an overwrite-safe stage a second time with the
\* same input leaves the raw-data container, the processed-data container and
\* the warehouse as the first invocation left them.
C6_OverwriteEquivalence ==
    [][\A s \in OverwriteSafe : Repeats(s) => Ext' = Ext]_vars

\* C6 (amended): a second invocation with the same input changes nothing for
\* ProvisionSchema; changes nothing for Transform exactly when it runs on the
\* same calendar day as the first (processed_date is the day of the run); and
\* changes nothing for Extract exactly when it runs within the same clock
\* second as the first: otherwise Extract adds one more snapshot object and
\* leaves the earlier ones in place.
C6_OverwriteEquivalenceAmended ==
    [][/\ Repeats(create_tables) => Ext' = Ext
       /\ Repeats(transform_task) =>
              /\ (Ext' = Ext) <=> (lastCall'.date = lastCall.date)
              /\ Len(processed') = 1
       /\ Repeats(extract_task) =>
              /\ (Ext' = Ext) <=> (lastCall'.name = lastCall.name)
              /\ lastCall'.name # lastCall.name =>
                     /\ DOMAIN blobs' = DOMAIN blobs \cup {lastCall'.name}
                     /\ lastCall'.name \notin DOMAIN blobs
                     /\ \A n \in DOMAIN blobs : blobs'[n] = blobs[n]
      ]_vars

\* Transform has run twice in a row over a non-empty container
C6_Witness ==
    /\ lastCall.stage = transform_task
    /\ lastCall.reps = 2
    /\ DOMAIN blobs # {}
    /\ Len(processed) = 1

\* C7 (as claimed): a stage whose attempts all yield RetryableFailure is
\* invoked exactly 3 times: once its third failure is recorded the run is
\* Aborted.
C7_AbortedAfterThree ==
    \A s \in Stages :
        (AllRetryable(s) /\ Len(EntriesOf(s)) = 3) =>
            runState = "Aborted" /\ tryNumber[s] = 3

\* C7 (amended): a stage whose attempts all yield RetryableFailure is invoked
\* exactly retries + 1 = 4 times: while fewer than 4 failures are recorded
\* the run is Running and the stage is retried; once the fourth is recorded
\* the stage is failed, the run is Aborted and no later stage has been, or
\* can be, invoked.
C7_AbortedAfterRetriesPlusOne ==
    \A s \in Stages :
        (AllRetryable(s) /\ Len(EntriesOf(s)) >= 1) =>
            IF Len(EntriesOf(s)) = retries + 1
            THEN /\ taskState[s] = "failed"
                 /\ runState = "Aborted"
                 /\ tryNumber[s] = retries + 1
                 /\ \A d \in Downstream(s) :
                        tryNumber[d] = 0 /\ taskState[d] = "upstream_failed"
            ELSE /\ Len(EntriesOf(s)) < retries + 1
                 /\ taskState[s] \in {"up_for_retry", "running"}
                 /\ runState = "Running"

C7_Witness ==
    /\ AllRetryable(extract_task)
    /\ Len(EntriesOf(extract_task)) = retries + 1
    /\ runState = "Aborted"

\* the record of a run in which stage s yielded RetryableFailure j times and
\* then Success, and every other stage yielded Success at once
ScenarioB(s, j) ==
    /\ EntriesOf(s) = [i \in 1..(j + 1) |->
                          IF i <= j THEN <<s, "RetryableFailure">>
                                    ELSE <<s, "Success">>]
    /\ \A t \in Stages \ {s} : EntriesOf(t) = << <<t, "Success">> >>

\* C8: when stage s has yielded RetryableFailure on its first j attempts
\* (j < max attempts = retries + 1) and Success on the next, and every other
\* stage has succeeded, the run is Completed, stage s has been attempted
\* exactly j + 1 times and the record holds exactly those j + 1 outcomes.
C8_RetryThenSuccess ==
    \A s \in Stages, j \in 0..retries :
        ScenarioB(s, j) =>
            /\ runState = "Completed"
            /\ tryNumber[s] = j + 1
            /\ Len(record) = j + Len(Chain)

C8_Witness == ScenarioB(transform_task, 2) /\ runState = "Completed"

SuccessEntries == SelectSeq(record, LAMBDA e : e[2] = "Success")

\* C9: the run is Completed exactly when all four stages have succeeded, and
\* the Success entries of the record of a Completed run are the four stages,
\* once each, in the order of the chain.
C9_CompletedIffAllSucceeded ==
    /\ runState = "Completed" <=> \A s \in Stages : taskState[s] = "success"
    /\ runState = "Completed" =>
          SuccessEntries = [s \in Stages |-> <<s, "Success">>]

C9_Witness == runState = "Completed" /\ Len(record) > Len(Chain)

\* C11: whenever the run is Aborted, the last entry of the record is a
\* failure (FatalFailure or RetryableFailure) of the stage that failed, it is
\* the outcome of that stage's last attempt, and the record holds no entry of
\* any later stage.
C11_LastEntryIsTheFailure ==
    runState = "Aborted" =>
        /\ Len(record) > 0
        /\ LET last == record[Len(record)]
           IN  /\ last[2] \in {"RetryableFailure", "FatalFailure"}
               /\ taskState[last[1]] = "failed"
               /\ Len(EntriesOf(last[1])) = tryNumber[last[1]]
               /\ \A i \in 1..Len(record) : record[i][1] <= last[1]
               /\ \A t \in Stages : taskState[t] = "failed" => t = last[1]

\* Scenario C: ProvisionSchema fails for good, Load is never invoked
C11_Witness ==
    /\ runState = "Aborted"
    /\ taskState[create_tables] = "failed"
    /\ record[Len(record)] = <<create_tables, "FatalFailure">>
    /\ tryNumber[load_to_snowflake] = 0

\* C12: a failed attempt that is to be retried sets the retry due exactly
\* 5 minutes after the failure, whatever the attempt number; the due time
\* does not move while the stage waits; and the retry starts no earlier than
\* the due time.
C12_FixedBackoff ==
    [][\A s \in Stages :
          /\ (taskState[s] = "running" /\ taskState'[s] = "up_for_retry") =>
                 retryAt'[s] = now + retry_delay * SecPerMin * TicksPerSec
          /\ (taskState[s] = "up_for_retry" /\ taskState'[s] = "up_for_retry") =>
                 retryAt'[s] = retryAt[s]
          /\ (taskState[s] = "up_for_retry" /\ taskState'[s] = "running") =>
                 now >= retryAt[s]
      ]_vars

\* the third attempt of a stage has started, 5 minutes after the second
\* failed, which was 5 minutes after the first failed
C12_Witness ==
    \E s \in Stages :
        /\ taskState[s] = "running"
        /\ tryNumber[s] = 3
        /\ retryAt[s] = 2 * retry_delay * SecPerMin * TicksPerSec
        /\ now = retryAt[s]

Terminal == {"Completed", "Aborted"}

\* C15: the state of the run only steps Pending -> Running,
\* Running -> Completed or Running -> Aborted (so Running is entered once and
\* Completed and Aborted are never left), and an attempt starts only while
\* the run is Running.
C15_RunStateMachine ==
    [][/\ runState' # runState =>
              \/ runState = "Pending" /\ runState' = "Running"
              \/ runState = "Running" /\ runState' \in Terminal
       /\ \A s \in Stages :
              (tryNumber'[s] # tryNumber[s] \/
               (taskState[s] # "running" /\ taskState'[s] = "running")) =>
                  runState = "Running" /\ runState' = "Running"
      ]_vars

C15_Witness ==
    /\ runState = "Aborted"
    /\ taskState[transform_task] = "failed"
    /\ tryNumber[extract_task] = 2

TotalAttempts ==
    tryNumber[extract_task] + tryNumber[transform_task]
        + tryNumber[create_tables] + tryNumber[load_to_snowflake]

\* C17: given that every started attempt returns, the run eventually is
\* Completed or Aborted, and at no time has it made more attempts, or
\* recorded more outcomes, than the four stages' max attempts together
\* (4 stages of retries + 1 attempts each).
C17_RunTerminates ==
    /\ <>(runState \in Terminal)
    /\ [](/\ TotalAttempts <= Len(Chain) * (retries + 1)
          /\ Len(record) <= TotalAttempts)

\* the longest run: every stage used all its attempts
C17_Witness ==
    /\ runState \in Terminal
    /\ TotalAttempts = Len(Chain) * (retries + 1)

\* a Load attempt of the other run is in progress
OtherLoading ==
    otherRun.running /\ otherRun.done + 1 = load_to_snowflake

\* C13 (as claimed): at no time are the Load attempts of two runs in
\* progress together.
C13_LoadsSerialized ==
    ~(taskState[load_to_snowflake] = "running" /\ OtherLoading)

\* the raw-data container cut down to the blob the run's Extract returned
RecordedArtifact ==
    [n \in {xcom} \cap DOMAIN blobs |-> blobs[n]]

\* C14 (as claimed): what a Transform attempt of the run reads, and so what
\* it writes, is the snapshot the run's own successful Extract returned and
\* nothing else.
C14_TransformReadsRecordedArtifact ==
    [][(taskState[transform_task] = "running" /\
        taskState'[transform_task] = "success") =>
            processed' = <<Transformed(RecordedArtifact, now)>>
      ]_vars

\* C18: a call of extract_from_source or transform_with_spark ends
\* "returned" exactly when none of its statements raised, and "raised"
\* otherwise; extract_from_source returns a blob name only when it has
\* uploaded the blob of that name, and returns nothing when it raises; no
\* Spark session is left running once transform_with_spark has ended,
\* however it ended.
C18_FailureNeverSuccess ==
    /\ body.pc = "done" =>
          /\ body.result \in {"returned", "raised"}
          /\ body.result = "returned" <=> ~body.error
          /\ ~body.spark
    /\ body.ret # NoArtifact =>
          /\ body.fn = "extract_from_source"
          /\ body.result = "returned"
          /\ body.ret = body.blob_name
          /\ body.ret \in DOMAIN blobs
    /\ (body.fn = "extract_from_source" /\ body.result = "returned") =>
          body.ret # NoArtifact
    /\ body.result = "raised" => body.error

\* transform_with_spark has ended raising, after its write raised with the
\* session running
C18_Witness ==
    /\ body.fn = "transform_with_spark"
    /\ body.pc = "done"
    /\ body.result = "raised"
    /\ ~body.spark
    /\ blobs # EmptyFn
    /\ processed = <<>>

====
